---- MODULE Spec2Model ----
(***************************************************************************)
(* A model of src/src/models/UpdateManager.py (gearlever): the update       *)
(* managers StaticFileUpdater, DynamicUpdater and GithubUpdater and the     *)
(* dispatcher UpdateManagerChecker.                                         *)
(*                                                                          *)
(* Text is modelled as a sequence of tokens: the separators the code looks  *)
(* at ("|", "/", "?", "-", "_", ".") are tokens of their own in file names, *)
(* paths and descriptors; a scheme ("https://") and a host ("github.com")   *)
(* are one token each, since the code only compares them whole.  A Python   *)
(* dict is a function whose DOMAIN is the set of keys that are present.     *)
(***************************************************************************)
EXTENDS Integers, Sequences, FiniteSets, TLC

VARIABLES
    \* ---- UpdateManagerChecker.check_url, check_url_for_app
    cu_pc,             \* "idle" before the first call, "returned" after a call
    cu_in,             \* the arguments of the last call and what check_app found
    cu_accepts,        \* what can_handle_link of each class answers for each string
    cu_calls,          \* the calls of can_handle_link the last call made, in order
    cu_result,         \* what the last call returned
    \* ---- GithubUpdater.get_url_data / can_handle_link
    gh_url,            \* the string handed to can_handle_link
    gh_pc,             \* "input" before the call, "parsed" after it
    gh_data,           \* what get_url_data returned
    gh_can_handle,     \* what can_handle_link returned
    \* ---- GithubUpdater.fetch_target_asset, one instance against one release
    fa_pc,             \* "input" before the call, "fetched" after it
    fa_url,            \* the string the instance was built from
    fa_embedded,       \* self.embedded
    fa_arch,           \* what terminal.sandbox_sh(['arch']) answers
    fa_api,            \* the answer of the releases API
    fa_result,         \* what fetch_target_asset did
    \* ---- is_update_available of the three managers
    av_pc,             \* "new" before DynamicUpdater.__init__, "ready" after it
    original_url,      \* the DynamicUpdater's self.original_url
    self_url,          \* the DynamicUpdater's self.url
    av_op,             \* the class of the last call
    av_in,             \* what the network and the file system answered in it
    av_out,            \* how it ended
    av_prev,           \* av_op and the freshly resolved URL of the call before it
    \* ---- StaticFileUpdater.download / cancel_download, one instance
    currend_download,  \* self.currend_download: NoDownload, or n for the response of call n
    dl_pc,             \* "idle", "reading" (in iter_content), "chunk" (a chunk in hand)
    dl_calls,          \* the downloads started so far
    resp_headers,      \* the headers of the current call's response
    resp_closed,       \* the current call's response has been closed
    stream_left,       \* the bytes the server still delivers before the stream ends
    chunk,             \* the size of the chunk in hand
    etag,              \* download's local etag
    total_size,        \* download's local total_size
    status,            \* download's local status
    file_size,         \* the bytes written to fname
    callbacks,         \* the calls of status_update_cb, in order
    dl_result,         \* how the last download call ended
    loop_exit,         \* how the last call left its chunk loop
    cancelled,         \* cancel_download closed the response of the call in progress
    cb_at_cancel,      \* Len(callbacks) when it did
    recv_at_cancel,    \* the bytes received from the stream when it did
    \* ---- one GithubUpdater: fetch_target_asset, is_update_available, download,
    \* ---- cancel_download; the variables above are its StaticFileUpdater
    staticfile_manager,\* self.staticfile_manager is set
    gd_pc,             \* "idle"; in download: "resolving" (in fetch_target_asset),
                       \* "created" (the StaticFileUpdater made), "downloading"
    gd_src,            \* the string the instance was built from
    gd_release,        \* the JSON of the repository's latest release
    gd_op,             \* the last method called
    gd_seen,           \* the URL it asked the releases API and the answer it got
    gd_out,            \* how it ended
    gd_started,        \* the last download call sent the request for the file
    gd_cancels,        \* the values of gd_pc at which cancel_download was called
                       \* during the last download call
    \* ---- UpdateManagerChecker.check_app
    ca_pc,             \* "input" before the call, "returned" after it
    readelf_out,       \* check_app's readelf_out after line 97
    ca_result          \* what check_app returned

dispatchVars == <<cu_pc, cu_in, cu_accepts, cu_calls, cu_result>>

parseVars == <<gh_url, gh_pc, gh_data, gh_can_handle>>

assetVars == <<fa_pc, fa_url, fa_embedded, fa_arch, fa_api, fa_result>>

availVars == <<av_pc, original_url, self_url, av_op, av_in, av_out, av_prev>>

dlVars == <<currend_download, dl_pc, dl_calls, resp_headers, resp_closed, stream_left,
            chunk, etag, total_size, status, file_size, callbacks, dl_result,
            loop_exit, cancelled, cb_at_cancel, recv_at_cancel>>

ghVars == <<staticfile_manager, gd_pc, gd_src, gd_release, gd_op, gd_seen, gd_out,
            gd_started, gd_cancels>>

appVars == <<ca_pc, readelf_out, ca_result>>

vars == <<dispatchVars, parseVars, assetVars, availVars, dlVars, ghVars, appVars>>

\* Python's None
None == "None"

\* dict.get(k, default)
HeaderGet(h, k, default) == IF k \in DOMAIN h THEN h[k] ELSE default

\* the dict with no key
EmptyDict == [k \in {} |-> None]

(***************************************************************************)
(* Text helpers                                                            *)
(***************************************************************************)

\* str.split(sep): the pieces between the occurrences of sep
RECURSIVE Split(_, _)
Split(s, sep) ==
    IF \A i \in 1..Len(s) : s[i] # sep
    THEN <<s>>
    ELSE LET i == CHOOSE k \in 1..Len(s) :
                     s[k] = sep /\ \A j \in 1..(k - 1) : s[j] # sep
         IN  <<SubSeq(s, 1, i - 1)>> \o Split(SubSeq(s, i + 1, Len(s)), sep)

\* sep.join(parts), as the f-strings of the code build it
RECURSIVE Join(_, _)
Join(parts, sep) ==
    IF Len(parts) = 0 THEN <<>>
    ELSE IF Len(parts) = 1 THEN parts[1]
    ELSE parts[1] \o <<sep>> \o Join(Tail(parts), sep)

\* the position of the first token of s that lies in stops, Len(s) + 1 if none
FirstOf(s, stops) ==
    IF \E i \in 1..Len(s) : s[i] \in stops
    THEN CHOOSE i \in 1..Len(s) : s[i] \in stops /\ \A j \in 1..(i - 1) : s[j] \notin stops
    ELSE Len(s) + 1

\* urllib.parse.urlsplit on a string that starts with a scheme token:
\* netloc runs to the first "/", "?" or "#", path to the first "?" or "#"
UrlSplit(url) ==
    LET rest    == Tail(url)
        nEnd    == FirstOf(rest, {"/", "?", "#"})
        afterN  == SubSeq(rest, nEnd, Len(rest))
        pEnd    == FirstOf(afterN, {"?", "#"})
    IN  [netloc |-> SubSeq(rest, 1, nEnd - 1),
         path   |-> SubSeq(afterN, 1, pEnd - 1)]

(***************************************************************************)
(* GithubUpdater.get_url_data, can_handle_link                             *)
(***************************************************************************)

\* get_url_data's "return False"
NoUrlData == [ok |-> FALSE]

UrlData(items, tag_name) ==
    [ok |-> TRUE, username |-> items[2], repo |-> items[3],
     release |-> items[4], filename |-> items[5], tag_name |-> tag_name]

\* the tail of get_url_data: split on "|", five items or False
PipeData(url, tag_name) ==
    LET items == Split(url, "|")
    IN  IF Len(items) # 5 THEN NoUrlData ELSE UrlData(items, tag_name)

get_url_data(url) ==
    IF Len(url) > 0 /\ url[1] = "https://"
    THEN LET urldata == UrlSplit(url)
             paths   == Split(urldata.path, "/")
         IN  IF urldata.netloc # <<"github.com">> THEN NoUrlData
             ELSE IF Len(paths) # 7 THEN NoUrlData
             ELSE IF paths[4] # <<"releases">> \/ paths[5] # <<"download">> THEN NoUrlData
             ELSE PipeData(<<"|">> \o paths[2] \o <<"|">> \o paths[3] \o <<"|", "latest", "|">>
                               \o paths[7],
                           paths[6])
    ELSE PipeData(url, <<"*">>)

GithubCanHandleLink(url) == get_url_data(url) # NoUrlData

(***************************************************************************)
(* GithubUpdater.fetch_target_asset                                        *)
(***************************************************************************)

\* the regex of convert_glob_to_regex, matched by re.match: "*" is any run of
\* text, every other token is itself, and the whole name must match
RECURSIVE GlobMatch(_, _)
GlobMatch(glob, name) ==
    IF Len(glob) = 0 THEN Len(name) = 0
    ELSE IF glob[1] = "*"
         THEN \E k \in 0..Len(name) : GlobMatch(Tail(glob), SubSeq(name, k + 1, Len(name)))
         ELSE Len(name) > 0 /\ name[1] = glob[1] /\ GlobMatch(Tail(glob), Tail(name))

\* str.endswith('.zsync')
EndsWithZsync(name) ==
    Len(name) >= 2 /\ name[Len(name) - 1] = "." /\ name[Len(name)] = "zsync"

\* re.sub(r'\.zsync$', '', name)
StripZsyncKept(name) == name
StripZsync(name) == IF EndsWithZsync(name) THEN SubSeq(name, 1, Len(name) - 2) ELSE name

Delimiters == {"-", "_", "."}

\* a token of words between two delimiters, as re.search finds it
HasMarker(name, words) ==
    \E i \in 1..(Len(name) - 2) :
        name[i] \in Delimiters /\ name[i + 1] \in words /\ name[i + 2] \in Delimiters

\* is_x86.search(name), line 517
IsX86(name) == HasMarker(name, {"x86"})

\* is_arm.search(name), line 518
IsArm(name) == HasMarker(name, {"arm64", "aarch64", "armv7l"})

\* the test of line 522
TargetQualifiesOnlyX86(name) == IsX86(name)
TargetQualifies(name) == IsX86(name) \/ ~IsArm(name)

\* the loop of lines 498-505 over assets[i..]: the candidates, or raise when an asset
\* it visits has no name
RECURSIVE PossibleTargets(_, _, _, _)
PossibleTargets(assets, i, embedded, filename) ==
    IF i > Len(assets) THEN [raise |-> FALSE, targets |-> <<>>]
    ELSE IF "name" \notin DOMAIN assets[i] THEN [raise |-> TRUE, targets |-> <<>>]
    ELSE LET asset == assets[i]
             rest  == PossibleTargets(assets, i + 1, embedded, filename)
         IN  IF embedded
             THEN IF GlobMatch(filename, asset["name"]) /\ EndsWithZsync(asset["name"])
                  THEN [raise |-> FALSE, targets |-> <<asset>>]
                  ELSE rest
             ELSE IF GlobMatch(filename, asset["name"])
                  THEN [raise |-> rest.raise, targets |-> <<asset>> \o rest.targets]
                  ELSE rest

\* zsync_file = None; "not zsync_file" is true of it
NoAsset == EmptyDict

\* the loop of lines 521-525: the first target that qualifies, None if there is none
RECURSIVE FirstQualifying(_, _)
FirstQualifying(targets, i) ==
    IF i > Len(targets) THEN NoAsset
    ELSE IF TargetQualifies(targets[i]["name"]) THEN targets[i]
    ELSE FirstQualifying(targets, i + 1)

\* lines 507-525: zsync_file
SelectTarget(possible_targets, system_arch) ==
    IF Len(possible_targets) = 1 THEN possible_targets[1]
    ELSE IF system_arch = "x86_64" THEN FirstQualifying(possible_targets, 1)
    ELSE NoAsset

\* the loop of lines 533-536 over assets[i..]
RECURSIVE AssetNamed(_, _, _)
AssetNamed(assets, i, target_file) ==
    IF i > Len(assets) THEN [kind |-> "none"]
    ELSE IF "name" \notin DOMAIN assets[i] THEN [kind |-> "raise"]
    ELSE IF assets[i]["name"] = target_file THEN [kind |-> "asset", asset |-> assets[i]]
    ELSE AssetNamed(assets, i + 1, target_file)

\* the test of line 493
TagMatchesAny(url_data, rel_data) == TRUE
TagMatches(url_data, rel_data) == GlobMatch(url_data.tag_name, rel_data["tag_name"])

\* the URL fetch_target_asset asks, lines 476-477
RelUrl(url_data) ==
    <<"https://", "api.github.com", "/", "repos", "/">> \o url_data.username \o <<"/">>
        \o url_data.repo \o <<"/", "releases", "/">> \o url_data.release

\* fetch_target_asset from line 487 on, rel_data being the JSON of the response.
\* kind is "asset", "none" (return None) or "raise"; step is how far it came
FetchFromRelease(rel_data, url_data, embedded, system_arch) ==
    LET nothing == [possible_targets |-> <<>>, zsync_file |-> NoAsset]
    IN
    IF "assets" \notin DOMAIN rel_data
    THEN [kind |-> "raise", step |-> "assets"] @@ nothing
    ELSE IF "tag_name" \notin DOMAIN rel_data
    THEN [kind |-> "raise", step |-> "tag"] @@ nothing
    ELSE IF ~TagMatches(url_data, rel_data)
    THEN [kind |-> "none", step |-> "tag"] @@ nothing
    ELSE LET found == PossibleTargets(rel_data["assets"], 1, embedded, url_data.filename)
         IN  IF found.raise
             THEN [kind |-> "raise", step |-> "targets"] @@ nothing
             ELSE LET zsync_file == SelectTarget(found.targets, system_arch)
                      picked == [possible_targets |-> found.targets,
                                 zsync_file |-> zsync_file]
                  IN  IF DOMAIN zsync_file = {}
                      THEN [kind |-> "none", step |-> "select"] @@ picked
                      ELSE AssetNamed(rel_data["assets"], 1, StripZsync(zsync_file["name"]))
                               @@ [step |-> "lookup"] @@ picked

\* fetch_target_asset: the request of lines 479-485, then the rest
fetch_target_asset(api_resp, url_data, embedded, system_arch) ==
    IF api_resp.kind # "json"
    THEN [kind |-> "none", step |-> "request", possible_targets |-> <<>>, zsync_file |-> NoAsset]
    ELSE FetchFromRelease(api_resp.json, url_data, embedded, system_arch)

(***************************************************************************)
(* StaticFileUpdater.get_url_headers, is_update_available                  *)
(***************************************************************************)

\* a request that was not made, and one that failed (no answer, or raise_for_status)
Unsent == [kind |-> "unsent", headers |-> EmptyDict]
Failed == [kind |-> "fail", headers |-> EmptyDict]

\* head_request_error after the HEAD request, line 215: the streamed GET is sent
GetSentAlways(head) == TRUE
GetSent(head) == head.kind # "ok"

\* get_url_headers: the HEAD request, then the streamed GET if that failed
get_url_headers(head, get) ==
    IF head.kind = "ok" THEN head.headers
    ELSE IF get.kind = "ok" THEN get.headers
    ELSE EmptyDict

\* StaticFileUpdater.is_update_available, lines 192-201
StaticAvailableNoZeroTest(headers, old_size) ==
    HeaderGet(headers, "content-length", 0) # old_size
StaticAvailable(headers, old_size) ==
    LET resp_cl == HeaderGet(headers, "content-length", 0)
    IN  IF resp_cl = 0 THEN FALSE ELSE resp_cl # old_size

(***************************************************************************)
(* DynamicUpdater.get_static_url, __init__, is_update_available            *)
(***************************************************************************)

\* '' and None: the values get_static_url returns for "no URL"
NoUrl == <<>>

\* get_static_url(url), resp being the answer to its GET
get_static_urlFinalFirst(url, resp) ==
    IF resp.kind # "ok" THEN NoUrl
    ELSE IF resp.url # url THEN resp.url
    ELSE HeaderGet(resp.headers, "location", NoUrl)
get_static_url(url, resp) ==
    IF resp.kind # "ok" THEN NoUrl
    ELSE LET location == HeaderGet(resp.headers, "location", NoUrl)
             content_disp == HeaderGet(resp.headers, "content-disposition", <<>>)
         IN  IF location # NoUrl THEN location
             ELSE IF resp.url # url THEN resp.url
             ELSE IF \E i \in 1..Len(content_disp) : content_disp[i] = "filename=" THEN url
             ELSE NoUrl

\* self.url after DynamicUpdater.__init__(url), lines 238-240 and 123
DynamicInitUrl(url, static_url) ==
    StripZsync(IF static_url # NoUrl THEN static_url ELSE url)

\* the test of line 354
UrlHasChanged(fresh_static_url, url) == fresh_static_url # NoUrl /\ fresh_static_url # url

\* self.url after DynamicUpdater.is_update_available, lines 354-356
DynamicUrlKept(fresh_static_url, url) == url
DynamicUrlAfter(fresh_static_url, url) ==
    IF UrlHasChanged(fresh_static_url, url) THEN fresh_static_url ELSE url

(***************************************************************************)
(* GithubUpdater.is_update_available                                       *)
(***************************************************************************)

\* AppImageProvider.supported_mimes
SupportedMimes ==
    {"application/x-iso9660-appimage", "application/vnd.appimage", "application/x-appimage"}

\* GithubUpdater.is_update_available, lines 539-550, target being what
\* fetch_target_asset did
GithubAvailable(target, old_size) ==
    IF target.kind = "raise" THEN [kind |-> "raise"]
    ELSE IF target.kind # "asset" THEN [kind |-> "return", value |-> FALSE]
    ELSE IF "content_type" \notin DOMAIN target.asset THEN [kind |-> "raise"]
    ELSE IF target.asset["content_type"] \notin
                SupportedMimes \cup {"raw", "binary/octet-stream", "application/octet-stream"}
         THEN [kind |-> "return", value |-> FALSE]
    ELSE IF "size" \notin DOMAIN target.asset THEN [kind |-> "raise"]
    ELSE [kind |-> "return", value |-> target.asset["size"] # old_size]

(***************************************************************************)
(* can_handle_link of StaticFileUpdater and DynamicUpdater                 *)
(***************************************************************************)

\* StaticFileUpdater.can_handle_link(url): valid is what url_is_valid answers,
\* headers what get_url_headers answers for the URL without its .zsync
StaticCanHandleLink(url, valid, headers) ==
    /\ valid
    /\ HeaderGet(headers, "content-type", "") \in
           SupportedMimes \cup {"binary/octet-stream", "application/octet-stream"}

\* str.lower() of a token
Lower(t) == IF t = "AppImage" THEN "appimage" ELSE t

\* 'appimage' in url.lower(), line 291
NamesAppImage(url) == \E i \in 1..Len(url) : Lower(url[i]) = "appimage"

\* the loop of lines 321-329: a host of common_download_domains, or "download.",
\* "releases." and "dl." in the text
IsDownloadPage(url) ==
    \/ \E i \in 1..Len(url) :
          Lower(url[i]) \in {"github.com", "gitlab.com", "sourceforge.net",
                             "download.example.org", "releases.example.org",
                             "dl.example.org"}
    \/ \E i \in 1..(Len(url) - 1) :
          Lower(url[i]) \in {"download", "releases", "dl"} /\ url[i + 1] = "."

\* DynamicUpdater.can_handle_link(url), head being the answer to its HEAD request
DynamicCanHandleLink(url, head) ==
    \/ NamesAppImage(url)
    \/ /\ head.kind = "ok"
       /\ \/ HeaderGet(head.headers, "content-type", "") \in
                {"application/octet-stream", "application/x-appimage", "binary/octet-stream"}
          \/ NamesAppImage(HeaderGet(head.headers, "content-disposition", <<>>))
    \/ IsDownloadPage(url)

(***************************************************************************)
(* UpdateManagerChecker                                                    *)
(***************************************************************************)

\* get_models
get_modelsGithubFirst == <<"GithubUpdater", "StaticFileUpdater", "DynamicUpdater">>
get_models == <<"StaticFileUpdater", "DynamicUpdater", "GithubUpdater">>

\* get_model_by_name
get_model_by_name(manager_label) ==
    IF \E i \in 1..Len(get_models) : get_models[i] = manager_label
    THEN manager_label
    ELSE None

\* lines 70-73: the classes check_url tries
CandidatesAll(model) == get_models
Candidates(model) ==
    IF model # None THEN SelectSeq(get_models, LAMBDA m : m = model) ELSE get_models

\* a loop of check_url over models[i..]: the calls of can_handle_link it makes, the
\* last of them the one that accepted, if any did
RECURSIVE TryModels(_, _, _, _)
TryModels(models, i, accepts, phase) ==
    IF i > Len(models) THEN <<>>
    ELSE LET call == [class |-> models[i], phase |-> phase, accepted |-> accepts[models[i]]]
         IN  IF accepts[models[i]] THEN <<call>>
             ELSE <<call>> \o TryModels(models, i + 1, accepts, phase)

Accepted(calls) == Len(calls) > 0 /\ calls[Len(calls)].accepted

\* the loop of lines 79-82 is entered
EmbeddedFirstNever(el, embedded_app_data) == FALSE
EmbeddedFirst(el, embedded_app_data) == el /\ embedded_app_data # <<>>

\* check_url(url, el, model): embedded_app_data is what check_app(el) returns and
\* accepts[phase][class] what can_handle_link of the class answers for the string
check_url(url, el, model, embedded_app_data, accepts) ==
    LET models == Candidates(model)
        first  == IF EmbeddedFirst(el, embedded_app_data)
                  THEN TryModels(models, 1, accepts["embedded"], "embedded")
                  ELSE <<>>
        second == IF url # <<>> THEN TryModels(models, 1, accepts["url"], "url") ELSE <<>>
    IN  IF Accepted(first)
        THEN [calls |-> first,
              result |-> [kind |-> "instance", class |-> first[Len(first)].class,
                          url |-> embedded_app_data, embedded |-> TRUE]]
        ELSE IF Accepted(second)
        THEN [calls |-> first \o second,
              result |-> [kind |-> "instance", class |-> second[Len(second)].class,
                          url |-> url, embedded |-> FALSE]]
        ELSE [calls |-> first \o second, result |-> [kind |-> "none"]]

(***************************************************************************)
(* StaticFileUpdater.download, cancel_download                             *)
(***************************************************************************)

\* block_size of download
BlockSize == 1024

\* self.currend_download = None
NoDownload == 0

\* the most half blocks a response advertises or delivers
MaxHalfBlocks == 4
\* the most download calls on the instance
MaxDownloads == 2

HalfBlock == BlockSize \div 2

BodySizes == {k * HalfBlock : k \in 0..MaxHalfBlocks}

\* the headers of a streamed GET response: content-length and etag, each present or not
DownloadHeaders ==
    {cl @@ et :
        cl \in {EmptyDict} \cup {"content-length" :> n : n \in BodySizes},
        et \in {EmptyDict, "etag" :> "etag-1"}}

\* the name download gives its file
Fname(n) == <<"download_folder", "/", "random_name", n, ".appimage">>

\* StaticFileUpdater.__init__
DlInit ==
    /\ currend_download = NoDownload
    /\ dl_pc = "idle"
    /\ dl_calls = 0
    /\ resp_headers = EmptyDict
    /\ resp_closed = FALSE
    /\ stream_left = 0
    /\ chunk = 0
    /\ etag = ""
    /\ total_size = 0
    /\ status = 0
    /\ file_size = 0
    /\ callbacks = <<>>
    /\ dl_result = [kind |-> "none"]
    /\ loop_exit = "none"
    /\ cancelled = FALSE
    /\ cb_at_cancel = 0
    /\ recv_at_cancel = 0

\* download, lines 151-166: requests.get raises, and the call ends with that error
DownloadGetFails ==
    /\ dl_pc = "idle"
    /\ dl_calls < MaxDownloads
    /\ dl_calls' = dl_calls + 1
    /\ dl_result' = [kind |-> "error"]
    /\ loop_exit' = "none"
    /\ cancelled' = FALSE
    /\ cb_at_cancel' = 0
    /\ recv_at_cancel' = 0
    /\ callbacks' = <<>>
    /\ UNCHANGED <<currend_download, dl_pc, resp_headers, resp_closed, stream_left, chunk,
                   etag, total_size, status, file_size>>

\* download, lines 151-166: the response arrives, the file is opened; the response
\* carries headers of the set given and a body of a size of the set given
DownloadStartFrom(headers, bodies) ==
    /\ dl_pc = "idle"
    /\ dl_calls < MaxDownloads
    /\ \E h \in headers, body \in bodies :
          /\ resp_headers' = h
          /\ stream_left' = body
          /\ etag' = HeaderGet(h, "etag", "")
          /\ total_size' = HeaderGet(h, "content-length", 0)
    /\ dl_calls' = dl_calls + 1
    /\ currend_download' = dl_calls + 1
    /\ resp_closed' = FALSE
    /\ status' = 0
    /\ file_size' = 0
    /\ chunk' = 0
    /\ callbacks' = <<>>
    /\ dl_result' = [kind |-> "none"]
    /\ loop_exit' = "none"
    /\ cancelled' = FALSE
    /\ cb_at_cancel' = 0
    /\ recv_at_cancel' = 0
    /\ dl_pc' = "reading"

DownloadStart == DownloadStartFrom(DownloadHeaders, BodySizes)

\* iter_content(block_size) yields the next chunk: a block, or less
ReadChunk ==
    /\ dl_pc = "reading"
    /\ ~resp_closed
    /\ stream_left > 0
    /\ \E c \in {HalfBlock, BlockSize} :
          /\ c <= stream_left
          /\ chunk' = c
          /\ stream_left' = stream_left - c
    /\ dl_pc' = "chunk"
    /\ UNCHANGED <<currend_download, dl_calls, resp_headers, resp_closed, etag, total_size,
                   status, file_size, callbacks, dl_result, loop_exit, cancelled,
                   cb_at_cancel, recv_at_cancel>>

\* what download adds to status for a chunk (line 170)
StatusStep(c) == BlockSize

\* the body of the chunk loop, lines 168-173
WriteChunk ==
    /\ dl_pc = "chunk"
    /\ file_size' = file_size + chunk
    /\ status' = status + StatusStep(chunk)
    /\ callbacks' =
          IF total_size # 0
          THEN Append(callbacks, [status |-> status', total_size |-> total_size,
                                  written |-> file_size', chunk |-> chunk])
          ELSE callbacks
    /\ chunk' = 0
    /\ dl_pc' = "reading"
    /\ UNCHANGED <<currend_download, dl_calls, resp_headers, resp_closed, stream_left, etag,
                   total_size, dl_result, loop_exit, cancelled, cb_at_cancel, recv_at_cancel>>

\* the test of line 175
SizeCheckFailsOrEqual(size, total) == size <= total
SizeCheckFails(size, total) == size < total

\* the iterator is exhausted (the stream ended, or the response was closed under it):
\* lines 175-179
StreamEnd ==
    /\ dl_pc = "reading"
    /\ stream_left = 0 \/ resp_closed
    /\ loop_exit' = IF resp_closed THEN "closed" ELSE "eof"
    /\ IF SizeCheckFails(file_size, total_size)
       THEN /\ dl_result' = [kind |-> "DownloadInterrupted"]
            /\ UNCHANGED currend_download
       ELSE /\ dl_result' = [kind |-> "returned", fname |-> Fname(dl_calls), etag |-> etag]
            /\ currend_download' = NoDownload
    /\ dl_pc' = "idle"
    /\ UNCHANGED <<dl_calls, resp_headers, resp_closed, stream_left, chunk, etag, total_size,
                   status, file_size, callbacks, cancelled, cb_at_cancel, recv_at_cancel>>

\* iter_content raises (the connection failed, or was closed during the read):
\* the exception leaves download
ReadError ==
    /\ dl_pc = "reading"
    /\ loop_exit' = "raise"
    /\ dl_result' = [kind |-> "error"]
    /\ dl_pc' = "idle"
    /\ UNCHANGED <<currend_download, dl_calls, resp_headers, resp_closed, stream_left, chunk,
                   etag, total_size, status, file_size, callbacks, cancelled, cb_at_cancel, recv_at_cancel>>

\* the test of line 182
HandleSetNever(handle) == FALSE
HandleSet(handle) == handle # NoDownload

\* cancel_download, from the thread that does not run download
CancelDownload ==
    /\ IF HandleSet(currend_download)
       THEN /\ currend_download' = NoDownload
            /\ resp_closed' = TRUE
            /\ IF dl_pc # "idle"
               THEN /\ cancelled' = TRUE
                    /\ cb_at_cancel' = Len(callbacks)
                    /\ recv_at_cancel' = file_size + chunk
               ELSE UNCHANGED <<cancelled, cb_at_cancel, recv_at_cancel>>
       ELSE UNCHANGED <<currend_download, resp_closed, cancelled, cb_at_cancel,
                        recv_at_cancel>>
    /\ UNCHANGED <<dl_pc, dl_calls, resp_headers, stream_left, chunk, etag, total_size,
                   status, file_size, callbacks, dl_result, loop_exit>>

(***************************************************************************)
(* The strings handed to GithubUpdater.can_handle_link                     *)
(***************************************************************************)

\* the most "|"-delimited fields of an input descriptor
MaxPipeFields == 6
\* the most "/"-led path segments of an input URL
MaxPathSegments == 7

PipeFieldPool == {<<"gh-releases-zsync">>, <<"o">>, <<>>}
PathSegmentPool == {<<"releases">>, <<"download">>, <<"o">>}

PipeInputs ==
    {Join(f, "|") : f \in UNION {[1..n -> PipeFieldPool] : n \in 1..MaxPipeFields}}

\* "/" before every segment
RECURSIVE SlashPath(_)
SlashPath(segs) ==
    IF Len(segs) = 0 THEN <<>> ELSE <<"/">> \o segs[1] \o SlashPath(Tail(segs))

UrlInputs ==
    {<<scheme>> \o host \o SlashPath(segs) \o query :
        scheme \in {"https://", "http://"},
        host \in {<<"github.com">>, <<"gitlab.com">>},
        segs \in UNION {[1..n -> PathSegmentPool] : n \in 0..MaxPathSegments},
        query \in {<<>>, <<"?", "o">>}}

\* a release URL whose file name holds a "|"
PipeInPathInputs ==
    {<<"https://", "github.com">>
        \o SlashPath(<<<<"o">>, <<"o">>, <<"releases">>, <<"download">>, <<"o">>, <<"o", "|", "o">>>>)}

GithubInputs == PipeInputs \cup UrlInputs \cup PipeInPathInputs

ParseOff ==
    /\ gh_url = <<>>
    /\ gh_pc = "off"
    /\ gh_data = None
    /\ gh_can_handle = None

AssetOff ==
    /\ fa_pc = "off"
    /\ fa_url = <<>>
    /\ fa_embedded = FALSE
    /\ fa_arch = ""
    /\ fa_api = [kind |-> "none"]
    /\ fa_result = [kind |-> "none"]

DispatchOff ==
    /\ cu_pc = "off"
    /\ cu_in = [via |-> "none"]
    /\ cu_accepts = <<>>
    /\ cu_calls = <<>>
    /\ cu_result = [kind |-> "none"]

AvailOff ==
    /\ av_pc = "off"
    /\ original_url = <<>>
    /\ self_url = <<>>
    /\ av_op = "none"
    /\ av_in = [kind |-> "none"]
    /\ av_out = [kind |-> "none"]
    /\ av_prev = [op |-> "none", fresh |-> <<>>]

AppOff ==
    /\ ca_pc = "off"
    /\ readelf_out = <<>>
    /\ ca_result = None

GithubOff ==
    /\ staticfile_manager = FALSE
    /\ gd_pc = "off"
    /\ gd_src = <<>>
    /\ gd_release = EmptyDict
    /\ gd_op = "none"
    /\ gd_seen = [kind |-> "unsent"]
    /\ gd_out = [kind |-> "none"]
    /\ gd_started = FALSE
    /\ gd_cancels = {}

ParseInit ==
    /\ gh_url \in GithubInputs
    /\ gh_pc = "input"
    /\ gh_data = None
    /\ gh_can_handle = None
    /\ DispatchOff
    /\ AssetOff
    /\ AvailOff
    /\ DlInit
    /\ GithubOff
    /\ AppOff

\* GithubUpdater.can_handle_link(gh_url)
CanHandleLink ==
    /\ gh_pc = "input"
    /\ gh_pc' = "parsed"
    /\ gh_data' = get_url_data(gh_url)
    /\ gh_can_handle' = GithubCanHandleLink(gh_url)
    /\ UNCHANGED <<gh_url, dispatchVars, assetVars, availVars, dlVars, ghVars, appVars>>

ParseNext == CanHandleLink

SpecParse == ParseInit /\ [][ParseNext]_vars

(***************************************************************************)
(* One GithubUpdater resolving its asset against one release               *)
(***************************************************************************)

\* the most assets of a release
MaxAssets == 3

NameX86 == <<"app", "-", "x86", "_", "64", ".", "AppImage">>
NameArm == <<"app", "-", "arm64", ".", "AppImage">>
NamePlain == <<"app", ".", "AppImage">>
AssetNames ==
    {NameX86, NameArm, NamePlain, NameX86 \o <<".", "zsync">>, NameArm \o <<".", "zsync">>,
     <<"notes", ".", "txt">>}

\* an asset of the releases API with every field
FullAsset(name) ==
    [name |-> name, size |-> HalfBlock, content_type |-> "application/vnd.appimage",
     id |-> name,
     browser_download_url |-> <<"https://", "github.com", "/", "o", "/", "r", "/">> \o name]

AssetLists ==
    UNION {[1..n -> {FullAsset(name) : name \in AssetNames}] : n \in 0..MaxAssets}

\* the strings a GithubUpdater is built from: pipe descriptors and release URLs
GithubSources ==
    {<<"gh-releases-zsync", "|", "o", "|", "r", "|", "latest", "|">> \o glob :
        glob \in {<<"app", "*">>, <<"app", "*", ".", "AppImage">>,
                  <<"app", "*", ".", "zsync">>}}
    \cup
    {<<"https://", "github.com", "/", "o", "/", "r", "/", "releases", "/", "download", "/",
       "v1", "/">> \o file :
        file \in {<<"app", "*">>, NameX86}}

AssetInit ==
    /\ fa_pc = "input"
    /\ fa_url \in GithubSources
    /\ fa_embedded \in BOOLEAN
    /\ fa_arch \in {"x86_64", "aarch64"}
    /\ fa_api \in {[kind |-> "json", json |-> [tag_name |-> <<tag>>, assets |-> assets]] :
                       tag \in {"v1", "v2"}, assets \in AssetLists}
    /\ fa_result = [kind |-> "none"]
    /\ DispatchOff
    /\ ParseOff
    /\ AvailOff
    /\ DlInit
    /\ GithubOff
    /\ AppOff

\* GithubUpdater(fa_url, fa_embedded).fetch_target_asset()
FetchTargetAsset ==
    /\ fa_pc = "input"
    /\ fa_pc' = "fetched"
    /\ fa_result' = fetch_target_asset(fa_api, get_url_data(fa_url), fa_embedded, fa_arch)
    /\ UNCHANGED <<fa_url, fa_embedded, fa_arch, fa_api, dispatchVars, parseVars, availVars,
                   dlVars, ghVars, appVars>>

AssetNext == FetchTargetAsset

SpecAsset == AssetInit /\ [][AssetNext]_vars

(***************************************************************************)
(* is_update_available: a StaticFileUpdater, a DynamicUpdater and a        *)
(* GithubUpdater, each asked in turn, the network answering as it likes    *)
(***************************************************************************)

\* the sizes of the installed file and of the remote one
FileSizes == {HalfBlock, BlockSize}

\* the answers to a header probe
ProbeResponses ==
    {Failed} \cup
    {[kind |-> "ok", headers |-> h] :
        h \in {EmptyDict} \cup {"content-length" :> n : n \in {0} \cup FileSizes}}

\* the answers to the two requests of get_url_headers: the GET is sent only when
\* the HEAD failed
ProbeOutcomes ==
    {[head |-> h, get |-> IF GetSent(h) THEN g ELSE Unsent] :
        h \in ProbeResponses, g \in ProbeResponses}

UrlLatest == <<"https://", "example.org", "/", "latest">>
UrlA == <<"https://", "cdn.example.org", "/", "app-1", ".", "AppImage">>
UrlB == <<"https://", "cdn.example.org", "/", "app-2", ".", "AppImage">>

\* the answers to the GET of get_static_url(url)
ResolveResponses(url) ==
    {[kind |-> "fail", headers |-> EmptyDict, url |-> url]} \cup
    {[kind |-> "ok", headers |-> loc @@ cd, url |-> final] :
        loc \in {EmptyDict, "location" :> UrlB},
        cd \in {EmptyDict, "content-disposition" :> <<"inline">>,
                "content-disposition" :> <<"attachment", ";", "filename=", "app">>},
        final \in {url, UrlA \o <<".", "zsync">>}}

\* the answers of the releases API: no answer or a bad status, a body that is not
\* JSON, and JSON with and without the fields fetch_target_asset reads
ApiResponses ==
    {[kind |-> "fail"], [kind |-> "not json"]} \cup
    {[kind |-> "json", json |-> j] :
        j \in {EmptyDict,
               [tag_name |-> <<"v1">>],
               [assets |-> <<>>],
               [tag_name |-> <<"v1">>, assets |-> <<>>],
               [tag_name |-> <<"v1">>, assets |-> <<FullAsset(NameX86)>>],
               [tag_name |-> <<"v1">>, assets |-> <<[size |-> HalfBlock]>>],
               [tag_name |-> <<"v1">>, assets |-> <<[name |-> NameX86]>>],
               [tag_name |-> <<"v1">>,
                assets |-> <<[name |-> NameX86, content_type |-> "raw"]>>],
               [tag_name |-> <<"v1">>,
                assets |-> <<[name |-> NameX86, content_type |-> "text/html"]>>]}}

\* the strings the GithubUpdater asked here is built from
AvailSources ==
    {<<"gh-releases-zsync", "|", "o", "|", "r", "|", "latest", "|", "app", "*">>,
     <<"https://", "github.com", "/", "o", "/", "r", "/", "releases", "/", "download", "/",
       "v1", "/">> \o NameX86}

NoInputs ==
    [head |-> Unsent, get |-> Unsent, headers |-> EmptyDict, old_size |-> 0,
     resolve |-> Unsent, fresh |-> NoUrl, url_before |-> NoUrl,
     api |-> [kind |-> "unsent"], gh_url |-> <<>>, embedded |-> FALSE, arch |-> ""]

AvailInit ==
    /\ av_pc = "new"
    /\ original_url \in {UrlLatest, UrlLatest \o <<".", "zsync">>}
    /\ self_url = <<>>
    /\ av_op = "none"
    /\ av_in = NoInputs
    /\ av_out = [kind |-> "none"]
    /\ av_prev = [op |-> "other", fresh |-> NoUrl]
    /\ DispatchOff
    /\ ParseOff
    /\ AssetOff
    /\ DlInit
    /\ GithubOff
    /\ AppOff

\* DynamicUpdater.__init__(original_url)
DynamicNew ==
    /\ av_pc = "new"
    /\ \E resp \in ResolveResponses(original_url) :
          self_url' = DynamicInitUrl(original_url, get_static_url(original_url, resp))
    /\ av_pc' = "ready"
    /\ UNCHANGED <<original_url, av_op, av_in, av_out, av_prev>>

\* what every call of is_update_available does to the bookkeeping
Checked(op) ==
    /\ av_pc = "ready"
    /\ av_op' = op
    /\ av_prev' = [op |-> IF av_op = "DynamicUpdater" THEN av_op ELSE "other",
                    fresh |-> av_in.fresh]
    /\ UNCHANGED <<av_pc, original_url>>

\* StaticFileUpdater.is_update_available(el)
StaticIsUpdateAvailable ==
    /\ Checked("StaticFileUpdater")
    /\ \E probe \in ProbeOutcomes, old_size \in FileSizes :
          LET headers == get_url_headers(probe.head, probe.get)
          IN  /\ av_in' = [NoInputs EXCEPT
                              !.head = probe.head,
                              !.get = probe.get,
                              !.headers = headers,
                              !.old_size = old_size]
              /\ av_out' = [kind |-> "return", value |-> StaticAvailable(headers, old_size)]
    /\ UNCHANGED self_url

\* DynamicUpdater.is_update_available(el)
DynamicIsUpdateAvailable ==
    /\ Checked("DynamicUpdater")
    /\ \E resp \in ResolveResponses(original_url),
          probe \in ProbeOutcomes, old_size \in FileSizes :
          LET fresh_static_url == get_static_url(original_url, resp)
              headers == get_url_headers(probe.head, probe.get)
              ins == [NoInputs EXCEPT !.resolve = resp, !.fresh = fresh_static_url,
                                      !.url_before = self_url, !.old_size = old_size]
          IN  /\ self_url' = DynamicUrlAfter(fresh_static_url, self_url)
              /\ IF UrlHasChanged(fresh_static_url, self_url)
                 THEN /\ av_in' = ins
                      /\ av_out' = [kind |-> "return", value |-> TRUE]
                 ELSE /\ av_in' = [ins EXCEPT
                                     !.head = probe.head,
                                     !.get = probe.get,
                                     !.headers = headers]
                      /\ av_out' = [kind |-> "return",
                                    value |-> StaticAvailable(headers, old_size)]

\* GithubUpdater(gh, embedded).is_update_available(el)
GithubIsUpdateAvailable ==
    /\ Checked("GithubUpdater")
    /\ \E gh \in AvailSources, embedded \in BOOLEAN, api \in ApiResponses,
          old_size \in FileSizes :
          /\ av_in' = [NoInputs EXCEPT !.api = api, !.gh_url = gh, !.embedded = embedded,
                                       !.arch = "x86_64", !.old_size = old_size]
          /\ av_out' = GithubAvailable(
                           fetch_target_asset(api, get_url_data(gh), embedded, "x86_64"),
                           old_size)
    /\ UNCHANGED self_url

AvailNext ==
    \/ DynamicNew /\ UNCHANGED <<dispatchVars, parseVars, assetVars, dlVars, ghVars, appVars>>
    \/ StaticIsUpdateAvailable /\ UNCHANGED <<dispatchVars, parseVars, assetVars, dlVars, ghVars, appVars>>
    \/ DynamicIsUpdateAvailable /\ UNCHANGED <<dispatchVars, parseVars, assetVars, dlVars, ghVars, appVars>>
    \/ GithubIsUpdateAvailable /\ UNCHANGED <<dispatchVars, parseVars, assetVars, dlVars, ghVars, appVars>>

SpecAvail == AvailInit /\ [][AvailNext]_vars

(***************************************************************************)
(* One StaticFileUpdater, its download thread and a cancelling thread      *)
(***************************************************************************)

DownloadInit == DlInit /\ DispatchOff /\ ParseOff /\ AssetOff /\ AvailOff /\ GithubOff
                    /\ AppOff

DownloadNext ==
    \/ DownloadGetFails /\ UNCHANGED <<dispatchVars, parseVars, assetVars, availVars, ghVars, appVars>>
    \/ DownloadStart /\ UNCHANGED <<dispatchVars, parseVars, assetVars, availVars, ghVars, appVars>>
    \/ ReadChunk /\ UNCHANGED <<dispatchVars, parseVars, assetVars, availVars, ghVars, appVars>>
    \/ WriteChunk /\ UNCHANGED <<dispatchVars, parseVars, assetVars, availVars, ghVars, appVars>>
    \/ StreamEnd /\ UNCHANGED <<dispatchVars, parseVars, assetVars, availVars, ghVars, appVars>>
    \/ ReadError /\ UNCHANGED <<dispatchVars, parseVars, assetVars, availVars, ghVars, appVars>>
    \/ CancelDownload /\ UNCHANGED <<dispatchVars, parseVars, assetVars, availVars, ghVars, appVars>>

SpecDownload == DownloadInit /\ [][DownloadNext]_vars

(***************************************************************************)
(* UpdateManagerChecker.check_url and check_url_for_app, called once       *)
(***************************************************************************)

\* what check_app finds in an AppImage: nothing, a gh-releases-zsync descriptor, a URL
EmbeddedDescriptors ==
    {<<>>,
     <<"gh-releases-zsync", "|", "o", "|", "r", "|", "latest", "|",
       "app", "*", ".", "AppImage", ".", "zsync">>,
     <<"gh-releases-zsync", "|", "o", "|", "r", "|", "latest", "|", "tool", "*", ".", "zsync">>,
     <<"https://", "example.org", "/", "app", ".", "AppImage", ".", "zsync">>,
     <<"https://", "example.org", "/", "tool", ".", "bin">>}

\* the url argument: None, a release URL, a redirecting URL, a download host
RawUrls ==
    {<<>>,
     <<"https://", "github.com", "/", "o", "/", "r", "/", "releases", "/", "download", "/",
       "v1", "/">> \o NameX86,
     <<"https://", "github.com", "/", "o", "/", "r", "/", "releases", "/", "download", "/",
       "v1", "/", "tool", ".", "bin">>,
     UrlLatest,
     <<"https://", "download.example.org", "/", "tool">>}

\* the answers to the probes of StaticFileUpdater.can_handle_link
ContentTypeProbes ==
    {[head |-> Failed, get |-> Failed],
     [head |-> [kind |-> "ok", headers |-> "content-type" :> "application/vnd.appimage"],
      get |-> Unsent],
     [head |-> [kind |-> "ok", headers |-> "content-type" :> "text/html"], get |-> Unsent],
     [head |-> Failed,
      get |-> [kind |-> "ok", headers |-> "content-type" :> "application/octet-stream"]]}

\* the answers to the HEAD request of DynamicUpdater.can_handle_link
HeadAnswers ==
    {Failed,
     [kind |-> "ok", headers |-> EmptyDict],
     [kind |-> "ok", headers |-> "content-type" :> "application/octet-stream"],
     [kind |-> "ok",
      headers |-> "content-disposition" :> <<"attachment", ";", "filename=", "app", ".",
                                             "AppImage">>]}

\* what can_handle_link of each class may answer for the string s
AcceptTables(s) ==
    IF s = <<>>
    THEN {[m \in {"StaticFileUpdater", "DynamicUpdater", "GithubUpdater"} |-> FALSE]}
    ELSE {[StaticFileUpdater |->
               StaticCanHandleLink(s, valid, get_url_headers(probe.head, probe.get)),
           DynamicUpdater |-> DynamicCanHandleLink(s, head),
           GithubUpdater |-> GithubCanHandleLink(s)] :
              valid \in BOOLEAN, probe \in ContentTypeProbes, head \in HeadAnswers}

\* the argument lists of a call
CallInputs ==
    {[via |-> "check_url", url |-> url, el |-> el, model |-> model, label |-> None,
      embedded_app_data |-> IF el THEN emb ELSE <<>>] :
        url \in RawUrls, el \in BOOLEAN, emb \in EmbeddedDescriptors,
        model \in {None} \cup {get_models[i] : i \in 1..Len(get_models)}}
    \cup
    {[via |-> "check_url_for_app", url |-> url, el |-> TRUE,
      model |-> get_model_by_name(label), label |-> label, embedded_app_data |-> emb] :
        url \in RawUrls, emb \in EmbeddedDescriptors,
        label \in {None, "FlatpakUpdater"} \cup {get_models[i] : i \in 1..Len(get_models)}}

DispatchInit ==
    /\ cu_pc = "idle"
    /\ cu_in \in CallInputs
    /\ cu_accepts = <<>>
    /\ cu_calls = <<>>
    /\ cu_result = [kind |-> "none"]
    /\ ParseOff
    /\ AssetOff
    /\ AvailOff
    /\ DlInit
    /\ GithubOff
    /\ AppOff

\* the call itself, the network answering as it likes
Dispatch ==
    /\ cu_pc = "idle"
    /\ cu_pc' = "returned"
    /\ \E e \in AcceptTables(cu_in.embedded_app_data), u \in AcceptTables(cu_in.url) :
          LET accepts == [embedded |-> e, url |-> u]
              did == check_url(cu_in.url, cu_in.el, cu_in.model, cu_in.embedded_app_data,
                               accepts)
          IN  /\ cu_accepts' = accepts
              /\ cu_calls' = did.calls
              /\ cu_result' = did.result
    /\ UNCHANGED <<cu_in, parseVars, assetVars, availVars, dlVars, ghVars, appVars>>

\* UpdateManagerChecker.check_url(url, el, model)
CheckUrl == cu_in.via = "check_url" /\ Dispatch

\* UpdateManagerChecker.check_url_for_app(el)
CheckUrlForApp == cu_in.via = "check_url_for_app" /\ Dispatch

DispatchNext == CheckUrl \/ CheckUrlForApp

SpecDispatch == DispatchInit /\ [][DispatchNext]_vars

(***************************************************************************)
(* UpdateManagerChecker.check_app on the output of readelf                 *)
(***************************************************************************)

\* the text ends with "zsync" and has a character before it: the token zsync after
\* another token of the match, or the token gh-releases-zsync
EndsGhMatch(text, i, j) ==
    \/ text[j] = "zsync" /\ j >= i + 3
    \/ text[j] = "gh-releases-zsync" /\ j >= i + 2

\* re.search(r"gh-releases-zsync\|.*(.zsync)", text): the leftmost start that has a
\* match and, .* being greedy, the longest match from it; <<>> for no match
SearchGh(text) ==
    LET starts == {i \in 1..(Len(text) - 1) :
                      /\ text[i] = "gh-releases-zsync"
                      /\ text[i + 1] = "|"
                      /\ \E j \in 1..Len(text) : EndsGhMatch(text, i, j)}
    IN  IF starts = {} THEN <<>>
        ELSE LET i == CHOOSE a \in starts : \A b \in starts : a <= b
                 j == CHOOSE a \in 1..Len(text) :
                          /\ EndsGhMatch(text, i, a)
                          /\ \A b \in 1..Len(text) : EndsGhMatch(text, i, b) => b <= a
             IN  SubSeq(text, i, j)

\* re.search(r"^zsync\|http(.*)\s", text): "^" is the start of the text, and .* being
\* greedy the match runs to the last whitespace; <<>> for no match
SearchLink(text) ==
    IF /\ Len(text) >= 4
       /\ text[1] = "zsync" /\ text[2] = "|" /\ text[3] \in {"https://", "http://"}
       /\ \E k \in 4..Len(text) : text[k] = " "
    THEN SubSeq(text, 1, CHOOSE k \in 4..Len(text) :
                             text[k] = " " /\ \A m \in 4..Len(text) : text[m] = " " => m <= k)
    ELSE <<>>

\* str.strip()
RECURSIVE Strip(_)
Strip(text) ==
    IF Len(text) = 0 THEN text
    ELSE IF text[1] = " " THEN Strip(Tail(text))
    ELSE IF text[Len(text)] = " " THEN Strip(SubSeq(text, 1, Len(text) - 1))
    ELSE text

\* check_app from line 100 on; <<>> for None
check_app(text) ==
    IF SearchGh(text) # <<>> THEN Strip(SearchGh(text))
    ELSE IF SearchLink(text) # <<>> THEN Strip(SubSeq(SearchLink(text), 3, Len(SearchLink(text))))
    ELSE <<>>

GhDescriptor ==
    <<"gh-releases-zsync", "|", "o", "|", "r", "|", "latest", "|",
      "app", "*", ".", "AppImage", ".", "zsync">>

\* what readelf prints before the strings of the section, newlines being blanks
DumpHeads ==
    {<<>>,
     <<" ">>,
     <<"String dump of section '.upd_info':", " ", " ", " ", "[", " ", "0", "]", " ", " ">>}

\* the string of the section
DumpEntries ==
    {<<>>,
     GhDescriptor,
     <<"zsync", "|">> \o GhDescriptor,
     <<"gh-releases-zsync", "|", "o", "|", "r", "|", "latest", "|", "app", ".", "AppImage">>,
     <<"zsync", "|", "https://", "x", "/", "y", ".", "bin">>,
     <<"zsync", "|", "http://", "x", "/", "y", ".", "bin">>,
     <<"zsync", "|", "ftp://", "x", "/", "y", ".", "bin">>,
     <<"https://", "x", "/", "y", ".", "bin">>,
     <<"zsync", "|", "https://", "x", "/", "app", ".", "AppImage", ".", "zsync">>}

\* what follows it
DumpTails ==
    {<<>>, <<" ">>, <<" ", "[", " ", "2f", "]", " ", " ", "x">>}

\* readelf_out after line 97: the newlines are blanks and a blank is appended
ReadelfOutputs ==
    {head \o entry \o tail \o <<" ">> :
        head \in DumpHeads, entry \in DumpEntries, tail \in DumpTails}

CheckAppInit ==
    /\ ca_pc = "input"
    /\ readelf_out \in ReadelfOutputs
    /\ ca_result = None
    /\ DispatchOff
    /\ ParseOff
    /\ AssetOff
    /\ AvailOff
    /\ GithubOff
    /\ DlInit

\* check_app(el), readelf having printed readelf_out
CheckApp ==
    /\ ca_pc = "input"
    /\ ca_pc' = "returned"
    /\ ca_result' = check_app(readelf_out)
    /\ UNCHANGED <<readelf_out, dispatchVars, parseVars, assetVars, availVars, dlVars, ghVars>>

CheckAppNext == CheckApp

SpecCheckApp == CheckAppInit /\ [][CheckAppNext]_vars

(***************************************************************************)
(* One GithubUpdater against the latest release of its repository: its     *)
(* download thread, a cancelling thread, and calls of fetch_target_asset   *)
(* and is_update_available between downloads                               *)
(***************************************************************************)

\* the strings the instance is built from: a release URL with the literal tag v1 and
\* an embedded descriptor
TransferSources ==
    {<<"https://", "github.com", "/", "o", "/", "r", "/", "releases", "/", "download", "/",
       "v1", "/">> \o NameX86,
     <<"gh-releases-zsync", "|", "o", "|", "r", "|", "latest", "|", "app", "*", ".", "zsync">>}

\* the latest release: its tag, and assets with or without the file
LatestReleases ==
    {[tag_name |-> <<tag>>, assets |-> assets] :
        tag \in {"v1", "v2"},
        assets \in {<<>>,
                    <<FullAsset(NameX86)>>,
                    <<FullAsset(NameX86 \o <<".", "zsync">>), FullAsset(NameX86)>>}}

\* the answers of the releases API to one request
ReleaseAnswers == {[kind |-> "fail"], [kind |-> "json", json |-> gd_release]}

\* what the server of the file answers: a body of the advertised length, or less
TransferHeaders == {("content-length" :> BlockSize) @@ ("etag" :> "etag-1")}
TransferBodies == {HalfBlock, BlockSize}

\* check_url builds the instance with embedded=True from a descriptor, and with
\* embedded=False from a URL (lines 82 and 88)
GdEmbedded == gd_src[1] # "https://"

\* self.fetch_target_asset() of the instance, api being the answer to its request
GdFetch(api) == fetch_target_asset(api, get_url_data(gd_src), GdEmbedded, "x86_64")

\* the request of fetch_target_asset and its answer
GdSeen(api) == [url |-> RelUrl(get_url_data(gd_src))] @@ api

GithubInit ==
    /\ staticfile_manager = FALSE
    /\ gd_pc = "idle"
    /\ gd_src \in TransferSources
    /\ gd_release \in LatestReleases
    /\ gd_op = "none"
    /\ gd_seen = [kind |-> "unsent"]
    /\ gd_out = [kind |-> "none"]
    /\ gd_started = FALSE
    /\ gd_cancels = {}
    /\ DlInit
    /\ DispatchOff
    /\ ParseOff
    /\ AssetOff
    /\ AvailOff
    /\ AppOff

\* fetch_target_asset()
GithubFetchTargetAsset ==
    /\ gd_pc = "idle"
    /\ \E api \in ReleaseAnswers :
          /\ gd_seen' = GdSeen(api)
          /\ gd_out' = GdFetch(api)
    /\ gd_op' = "fetch_target_asset"
    /\ UNCHANGED <<staticfile_manager, gd_pc, gd_src, gd_release, gd_started, gd_cancels,
                   dlVars>>

\* is_update_available(el)
GithubCheckUpdate ==
    /\ gd_pc = "idle"
    /\ \E api \in ReleaseAnswers, old_size \in FileSizes :
          /\ gd_seen' = GdSeen(api)
          /\ gd_out' = GithubAvailable(GdFetch(api), old_size)
    /\ gd_op' = "is_update_available"
    /\ UNCHANGED <<staticfile_manager, gd_pc, gd_src, gd_release, gd_started, gd_cancels,
                   dlVars>>

\* download is called: line 434, the request of fetch_target_asset is under way
GithubDownload ==
    /\ gd_pc = "idle"
    /\ dl_calls < MaxDownloads
    /\ gd_pc' = "resolving"
    /\ gd_op' = "download"
    /\ gd_seen' = [kind |-> "unsent"]
    /\ gd_out' = [kind |-> "pending"]
    /\ gd_started' = FALSE
    /\ gd_cancels' = {}
    /\ UNCHANGED <<staticfile_manager, gd_src, gd_release, dlVars>>

\* StaticFileUpdater(dwnl), line 440: a new instance, with no response
NewStaticFileUpdater ==
    /\ currend_download' = NoDownload
    /\ dl_pc' = "idle"
    /\ resp_headers' = EmptyDict
    /\ resp_closed' = FALSE
    /\ stream_left' = 0
    /\ chunk' = 0
    /\ etag' = ""
    /\ total_size' = 0
    /\ status' = 0
    /\ file_size' = 0
    /\ callbacks' = <<>>
    /\ dl_result' = [kind |-> "none"]
    /\ loop_exit' = "none"
    /\ cancelled' = FALSE
    /\ cb_at_cancel' = 0
    /\ recv_at_cancel' = 0
    /\ UNCHANGED dl_calls

\* download, lines 434-440: fetch_target_asset answers; with no asset download
\* returns None, with one it makes the StaticFileUpdater
GithubResolved ==
    /\ gd_pc = "resolving"
    /\ \E api \in ReleaseAnswers :
          LET target == GdFetch(api)
          IN  /\ gd_seen' = GdSeen(api)
              /\ IF target.kind = "asset" /\ "browser_download_url" \in DOMAIN target.asset
                 THEN /\ staticfile_manager' = TRUE
                      /\ NewStaticFileUpdater
                      /\ gd_pc' = "created"
                      /\ gd_out' = [kind |-> "pending", asset |-> target.asset]
                 ELSE /\ gd_pc' = "idle"
                      /\ gd_out' = [kind |-> IF target.kind = "none" THEN "none" ELSE "error"]
                      /\ UNCHANGED <<staticfile_manager, dlVars>>
    /\ UNCHANGED <<gd_src, gd_release, gd_op, gd_started, gd_cancels>>

\* line 441, in StaticFileUpdater.download: the response arrives
GithubTransferStart ==
    /\ gd_pc = "created"
    /\ DownloadStartFrom(TransferHeaders, TransferBodies)
    /\ gd_pc' = "downloading"
    /\ gd_started' = TRUE
    /\ UNCHANGED <<staticfile_manager, gd_src, gd_release, gd_op, gd_seen, gd_out, gd_cancels>>

\* line 441: requests.get raises, and the exception leaves download before line 443
GithubTransferGetFails ==
    /\ gd_pc = "created"
    /\ DownloadGetFails
    /\ gd_pc' = "idle"
    /\ gd_started' = TRUE
    /\ gd_out' = [kind |-> "error"]
    /\ UNCHANGED <<staticfile_manager, gd_src, gd_release, gd_op, gd_seen, gd_cancels>>

\* line 441: the chunk loop of StaticFileUpdater.download
GithubReadChunk == gd_pc = "downloading" /\ ReadChunk /\ UNCHANGED ghVars

GithubWriteChunk == gd_pc = "downloading" /\ WriteChunk /\ UNCHANGED ghVars

\* line 441 returns and lines 443-444 run, or DownloadInterruptedException leaves
\* download before line 443
GithubStreamEnd ==
    /\ gd_pc = "downloading"
    /\ StreamEnd
    /\ gd_pc' = "idle"
    /\ IF dl_result'.kind = "returned"
       THEN /\ staticfile_manager' = FALSE
            /\ gd_out' = [kind |-> "returned", fname |-> dl_result'.fname,
                          id |-> gd_out.asset["id"]]
       ELSE /\ gd_out' = [kind |-> dl_result'.kind]
            /\ UNCHANGED staticfile_manager
    /\ UNCHANGED <<gd_src, gd_release, gd_op, gd_seen, gd_started, gd_cancels>>

\* line 441: iter_content raises, and the exception leaves download before line 443
GithubReadError ==
    /\ gd_pc = "downloading"
    /\ ReadError
    /\ gd_pc' = "idle"
    /\ gd_out' = [kind |-> "error"]
    /\ UNCHANGED <<staticfile_manager, gd_src, gd_release, gd_op, gd_seen, gd_started,
                   gd_cancels>>

\* the test of line 447
ManagerSetAlways(manager) == TRUE
ManagerSet(manager) == manager

\* GithubUpdater.cancel_download, from the thread that does not run download
GithubCancelDownload ==
    /\ gd_pc # "off"
    /\ IF ManagerSet(staticfile_manager)
       THEN /\ CancelDownload
            /\ staticfile_manager' = FALSE
       ELSE UNCHANGED <<staticfile_manager, dlVars>>
    /\ gd_cancels' = IF gd_pc = "idle" THEN gd_cancels ELSE gd_cancels \cup {gd_pc}
    /\ UNCHANGED <<gd_pc, gd_src, gd_release, gd_op, gd_seen, gd_out, gd_started>>

\* the repository publishes a release, which is then its latest
PublishRelease ==
    /\ gd_pc # "off"
    /\ gd_release' \in LatestReleases \ {gd_release}
    /\ UNCHANGED <<staticfile_manager, gd_pc, gd_src, gd_op, gd_seen, gd_out, gd_started,
                   gd_cancels, dlVars>>

GithubNext ==
    \/ GithubFetchTargetAsset /\ UNCHANGED <<dispatchVars, parseVars, assetVars, availVars, appVars>>
    \/ GithubCheckUpdate /\ UNCHANGED <<dispatchVars, parseVars, assetVars, availVars, appVars>>
    \/ GithubDownload /\ UNCHANGED <<dispatchVars, parseVars, assetVars, availVars, appVars>>
    \/ GithubResolved /\ UNCHANGED <<dispatchVars, parseVars, assetVars, availVars, appVars>>
    \/ GithubTransferStart /\ UNCHANGED <<dispatchVars, parseVars, assetVars, availVars, appVars>>
    \/ GithubTransferGetFails /\ UNCHANGED <<dispatchVars, parseVars, assetVars, availVars, appVars>>
    \/ GithubReadChunk /\ UNCHANGED <<dispatchVars, parseVars, assetVars, availVars, appVars>>
    \/ GithubWriteChunk /\ UNCHANGED <<dispatchVars, parseVars, assetVars, availVars, appVars>>
    \/ GithubStreamEnd /\ UNCHANGED <<dispatchVars, parseVars, assetVars, availVars, appVars>>
    \/ GithubReadError /\ UNCHANGED <<dispatchVars, parseVars, assetVars, availVars, appVars>>
    \/ GithubCancelDownload /\ UNCHANGED <<dispatchVars, parseVars, assetVars, availVars, appVars>>
    \/ PublishRelease /\ UNCHANGED <<dispatchVars, parseVars, assetVars, availVars, appVars>>

SpecGithub == GithubInit /\ [][GithubNext]_vars

(***************************************************************************)
(* C1                                                                      *)
(***************************************************************************)

\* the first class, in the order check_url tries them, that accepts in a phase; None
\* if none does
FirstCandidate(phase) ==
    LET models == Candidates(cu_in.model)
        yes == {i \in 1..Len(models) : cu_accepts[phase][models[i]]}
    IN  IF yes = {} THEN None ELSE models[CHOOSE i \in yes : \A j \in yes : i <= j]

\* C1: when an artifact is given, check_app recovers a descriptor and a candidate
\* class accepts it, check_url returns the first such class built from the descriptor
\* with embedded=True, and can_handle_link is never asked about the raw url
C1_EmbeddedWins ==
    (/\ cu_pc = "returned"
     /\ cu_in.el
     /\ cu_in.embedded_app_data # <<>>
     /\ FirstCandidate("embedded") # None) =>
        /\ cu_result = [kind |-> "instance", class |-> FirstCandidate("embedded"),
                        url |-> cu_in.embedded_app_data, embedded |-> TRUE]
        /\ \A i \in 1..Len(cu_calls) : cu_calls[i].phase = "embedded"

\* the raw url could be handled too, by the class tried first, and the descriptor won
C1_Witness ==
    /\ cu_pc = "returned"
    /\ cu_in.el
    /\ cu_in.url # <<>>
    /\ cu_accepts["url"]["StaticFileUpdater"]
    /\ ~cu_accepts["embedded"]["StaticFileUpdater"]
    /\ cu_result.kind = "instance"
    /\ cu_result.class = "GithubUpdater"
    /\ cu_result.embedded

(***************************************************************************)
(* C2                                                                      *)
(***************************************************************************)

\* C2: once cancel_download has closed the response of a download that had not yet
\* received its advertised content-length, status_update_cb is not called again and
\* the download does not end with DownloadInterruptedException
C2_CancelIsClean ==
    (cancelled /\ recv_at_cancel < total_size) =>
        /\ Len(callbacks) = cb_at_cancel
        /\ dl_pc = "idle" => dl_result.kind # "DownloadInterrupted"

(***************************************************************************)
(* C3                                                                      *)
(***************************************************************************)

\* C3: a download with content-length L > 0 whose stream ends, uncancelled, short of
\* L bytes fails with DownloadInterruptedException; one that delivered at least L
\* bytes returns the file name and the response's etag ('' if absent)
C3_SizeCheck ==
    (dl_pc = "idle" /\ loop_exit = "eof" /\ total_size > 0) =>
        /\ file_size < total_size => dl_result.kind = "DownloadInterrupted"
        /\ file_size >= total_size =>
              dl_result = [kind |-> "returned", fname |-> Fname(dl_calls),
                           etag |-> HeaderGet(resp_headers, "etag", "")]

\* a stream that ended after a part of the advertised bytes
C3_Witness ==
    /\ dl_pc = "idle"
    /\ loop_exit = "eof"
    /\ 0 < file_size
    /\ file_size < total_size
    /\ dl_result.kind = "DownloadInterrupted"

(***************************************************************************)
(* C4                                                                      *)
(***************************************************************************)

\* C4: whenever no download call is in progress (none was made, the last one
\* returned, the last one failed with DownloadInterruptedException, or it was
\* cancelled) currend_download is unset
C4_NoHandleWhenIdle ==
    (dl_pc = "idle" /\ dl_result.kind \in {"none", "returned", "DownloadInterrupted"}) =>
        currend_download = NoDownload

(***************************************************************************)
(* C5                                                                      *)
(***************************************************************************)

\* every chunk but the last of the stream is a full block, and the stream holds no
\* more than the advertised length
FullBlocksThenLast ==
    /\ \A i \in 1..(Len(callbacks) - 1) : callbacks[i].chunk = BlockSize
    /\ Len(callbacks) > 0 =>
          (callbacks[Len(callbacks)].chunk = BlockSize \/ stream_left = 0)
    /\ file_size + chunk + stream_left <= total_size

\* C5: with content-length L > 0 every value handed to status_update_cb is
\* bytesWritten / L, lies in [0, 1] and is no smaller than the one before; with no
\* content-length the callback is never called
C5_ProgressIsFraction ==
    /\ total_size = 0 => callbacks = <<>>
    /\ FullBlocksThenLast =>
          \A i \in 1..Len(callbacks) :
              /\ callbacks[i].status = callbacks[i].written
              /\ 0 <= callbacks[i].status
              /\ callbacks[i].status <= callbacks[i].total_size
              /\ i > 1 => callbacks[i - 1].status <= callbacks[i].status

(***************************************************************************)
(* C6                                                                      *)
(***************************************************************************)

\* the content-length the probes of the last call carried, 0 if they carried none
ProbedLength ==
    IF av_in.head.kind = "ok" THEN HeaderGet(av_in.head.headers, "content-length", 0)
    ELSE IF av_in.get.kind = "ok" THEN HeaderGet(av_in.get.headers, "content-length", 0)
    ELSE 0

\* C6: StaticFileUpdater.is_update_available is false when the probed headers carry
\* content-length 0 or none (both probes failing included), and otherwise true
\* exactly when the remote content-length differs from the size of the file
C6_StaticAvailable ==
    av_op = "StaticFileUpdater" =>
        /\ av_out.kind = "return"
        /\ (av_in.head.kind = "fail" /\ av_in.get.kind = "fail") => av_out.value = FALSE
        /\ ProbedLength = 0 => av_out.value = FALSE
        /\ ProbedLength # 0 => (av_out.value <=> ProbedLength # av_in.old_size)

\* the HEAD failed, the GET told a length that is not the file's
C6_Witness ==
    /\ av_op = "StaticFileUpdater"
    /\ av_in.head.kind = "fail"
    /\ av_in.get.kind = "ok"
    /\ ProbedLength = BlockSize
    /\ av_in.old_size = HalfBlock
    /\ av_out.value = TRUE

(***************************************************************************)
(* C7                                                                      *)
(***************************************************************************)

\* the JSON of a release lacks a field fetch_target_asset or is_update_available reads
LacksField(json) ==
    \/ {"tag_name", "assets"} \ DOMAIN json # {}
    \/ \E i \in 1..Len(json["assets"]) :
          {"name", "size", "content_type"} \ DOMAIN json["assets"][i] # {}

\* the last call could not tell whether there is an update
CannotDetermine ==
    \/ av_op = "StaticFileUpdater" /\ ProbedLength = 0
    \/ av_op = "DynamicUpdater" /\ av_in.resolve.kind = "fail" /\ ProbedLength = 0
    \/ av_op = "GithubUpdater" /\ av_in.api.kind # "json"
    \/ av_op = "GithubUpdater" /\ av_in.api.kind = "json" /\ LacksField(av_in.api.json)

\* C7: is_update_available of each manager never raises, and returns false whenever
\* it could not tell
C7_Graceful ==
    av_op # "none" =>
        /\ av_out.kind = "return"
        /\ CannotDetermine => av_out.value = FALSE

(***************************************************************************)
(* C8                                                                      *)
(***************************************************************************)

\* the pipe form: exactly 5 "|"-delimited fields led by gh-releases-zsync
IsPipeDescriptor(s) ==
    LET f == Split(s, "|") IN Len(f) = 5 /\ f[1] = <<"gh-releases-zsync">>

\* https://github.com/<owner>/<repo>/releases/download/<tag>/<filename>
IsCanonicalReleaseUrl(s) ==
    /\ Len(s) > 0
    /\ s[1] = "https://"
    /\ UrlSplit(s).netloc = <<"github.com">>
    /\ LET paths == Split(UrlSplit(s).path, "/")
       IN  /\ Len(paths) = 7
           /\ paths[1] = <<>>
           /\ paths[4] = <<"releases">>
           /\ paths[5] = <<"download">>

\* C8: can_handle_link(s) is true if and only if s is a 5-field pipe descriptor
\* led by the tag gh-releases-zsync or a canonical github.com release URL
C8_CanHandleIffGrammar ==
    gh_pc = "parsed" =>
        (gh_can_handle <=> (IsPipeDescriptor(gh_url) \/ IsCanonicalReleaseUrl(gh_url)))

(***************************************************************************)
(* C9                                                                      *)
(***************************************************************************)

\* the index of the first candidate that names an x86 marker or no ARM marker, 0 if none
FirstFitting(cands) ==
    LET fits == {i \in 1..Len(cands) :
                    IsX86(cands[i]["name"]) \/ ~IsArm(cands[i]["name"])}
    IN  IF fits = {} THEN 0 ELSE CHOOSE i \in fits : \A j \in fits : i <= j

\* C9: when the tag matches, a single candidate is selected; of several, on x86_64,
\* the first that names an x86 marker or no ARM marker is; with no candidate, with
\* several on another architecture, or with none fitting, the result is None
C9_Selection ==
    (fa_pc = "fetched" /\ fa_result.step \in {"select", "lookup"}) =>
        LET cands == fa_result.possible_targets
            pick  == fa_result.zsync_file
        IN  /\ Len(cands) = 1 => pick = cands[1]
            /\ (Len(cands) > 1 /\ fa_arch = "x86_64" /\ FirstFitting(cands) # 0) =>
                  pick = cands[FirstFitting(cands)]
            /\ (\/ Len(cands) = 0
                \/ Len(cands) > 1 /\ fa_arch # "x86_64"
                \/ Len(cands) > 1 /\ FirstFitting(cands) = 0) =>
                  (pick = NoAsset /\ fa_result.kind = "none")
            /\ ({NameX86, NameArm} = {cands[i]["name"] : i \in 1..Len(cands)}
                    /\ fa_arch = "x86_64") =>
                  pick["name"] = NameX86

\* the ARM asset listed before the x86 asset, both candidates, on x86_64
C9_Witness ==
    /\ fa_pc = "fetched"
    /\ fa_arch = "x86_64"
    /\ Len(fa_result.possible_targets) = 2
    /\ fa_result.possible_targets[1]["name"] = NameArm
    /\ fa_result.possible_targets[2]["name"] = NameX86
    /\ fa_result.zsync_file["name"] = NameX86
    /\ fa_result.kind = "asset"

(***************************************************************************)
(* C10                                                                     *)
(***************************************************************************)

\* the last call resolved a URL that is not the one the instance held
Diverged == av_in.fresh # NoUrl /\ av_in.fresh # av_in.url_before

\* C10: DynamicUpdater.is_update_available returns true and adopts the fresh URL when
\* the fresh resolution succeeded and differs from self.url; otherwise it keeps
\* self.url and returns the result of the size comparison; and of two calls in a row
\* that resolve to the same URL the second does not report a changed URL
C10_DynamicCheck ==
    av_op = "DynamicUpdater" =>
        /\ av_in.resolve.kind # "unsent"
        /\ Diverged =>
              /\ av_out = [kind |-> "return", value |-> TRUE]
              /\ self_url = av_in.fresh
              /\ av_in.head.kind = "unsent"
        /\ ~Diverged =>
              /\ self_url = av_in.url_before
              /\ av_in.head.kind # "unsent"
              /\ av_out = [kind |-> "return",
                           value |-> (ProbedLength # 0 /\ ProbedLength # av_in.old_size)]
        /\ (av_prev.op = "DynamicUpdater" /\ av_prev.fresh = av_in.fresh) => ~Diverged

\* two calls in a row resolved to the same URL, one that __init__ had stripped of
\* its .zsync, and the second call compared sizes
C10_Witness ==
    /\ av_op = "DynamicUpdater"
    /\ av_prev.op = "DynamicUpdater"
    /\ av_prev.fresh = av_in.fresh
    /\ av_in.fresh = UrlA \o <<".", "zsync">>
    /\ self_url = av_in.fresh
    /\ av_in.head.kind = "ok"
    /\ av_out.value = TRUE

(***************************************************************************)
(* C11                                                                     *)
(***************************************************************************)

\* the assets of the release that carry the name
AssetsCalled(name) ==
    {i \in 1..Len(fa_api.json["assets"]) : fa_api.json["assets"][i]["name"] = name}

\* the name of the artifact a selected candidate stands for: the candidate's own name,
\* or, for a sidecar, the name that followed by .zsync is the sidecar's
ArtifactOf(candidate) ==
    IF EndsWithZsync(candidate["name"])
    THEN CHOOSE n \in {SubSeq(candidate["name"], 1, k) : k \in 0..Len(candidate["name"])} :
             n \o <<".", "zsync">> = candidate["name"]
    ELSE candidate["name"]

\* C11: an asset fetch_target_asset returns is the first asset of the release whose
\* name is the selected candidate's name without its trailing .zsync; for a .zsync
\* candidate (the only kind in embedded mode) it is not the sidecar; and when no
\* asset carries that name the result is None
C11_ReturnsArtifact ==
    (fa_pc = "fetched" /\ fa_result.step = "lookup") =>
        LET pick == fa_result.zsync_file
            named == AssetsCalled(ArtifactOf(pick))
        IN  /\ fa_embedded => EndsWithZsync(pick["name"])
            /\ named = {} <=> fa_result.kind = "none"
            /\ named # {} =>
                  /\ fa_result.kind = "asset"
                  /\ \E i \in named :
                        /\ fa_result.asset = fa_api.json["assets"][i]
                        /\ \A j \in named : i <= j
                  /\ EndsWithZsync(pick["name"]) => fa_result.asset # pick

\* embedded mode picked a sidecar listed before its artifact, and the artifact came back
C11_Witness ==
    /\ fa_pc = "fetched"
    /\ fa_embedded
    /\ fa_result.kind = "asset"
    /\ fa_result.zsync_file["name"] = NameX86 \o <<".", "zsync">>
    /\ fa_api.json["assets"][1] = fa_result.zsync_file
    /\ fa_result.asset["name"] = NameX86

\* the selected sidecar's artifact is not among the assets
C11_WitnessMissing ==
    /\ fa_pc = "fetched"
    /\ fa_result.step = "lookup"
    /\ EndsWithZsync(fa_result.zsync_file["name"])
    /\ fa_result.kind = "none"

(***************************************************************************)
(* C12                                                                     *)
(***************************************************************************)

\* the path of a URL led by https:// on github.com, cut at its "/"
GithubPaths(s) == Split(UrlSplit(s).path, "/")

\* a URL led by https:// whose host is github.com
IsGithubUrl(s) == Len(s) > 0 /\ s[1] = "https://" /\ UrlSplit(s).netloc = <<"github.com">>

\* C12: get_url_data maps gh-releases-zsync|O|R|S|F to O, R, S, F and the tag
\* pattern "*"; https://github.com/O/R/releases/download/T/F to O, R, "latest", F
\* and the tag pattern T; and rejects a github.com URL whose path has another
\* number of segments
C12_FieldMapping ==
    gh_pc = "parsed" =>
        /\ IsPipeDescriptor(gh_url) =>
              LET f == Split(gh_url, "|")
              IN  gh_data = [ok |-> TRUE, username |-> f[2], repo |-> f[3],
                             release |-> f[4], filename |-> f[5], tag_name |-> <<"*">>]
        /\ IsCanonicalReleaseUrl(gh_url) =>
              LET paths == GithubPaths(gh_url)
              IN  gh_data = [ok |-> TRUE, username |-> paths[2], repo |-> paths[3],
                             release |-> <<"latest">>, filename |-> paths[7],
                             tag_name |-> paths[6]]
        /\ (IsGithubUrl(gh_url) /\ Len(GithubPaths(gh_url)) # 7) => gh_data = NoUrlData

(***************************************************************************)
(* C13                                                                     *)
(***************************************************************************)

\* the last call of is_update_available asked get_url_headers
ProbedHeaders == av_op \in {"StaticFileUpdater", "DynamicUpdater"} /\ av_in.head.kind # "unsent"

\* C13: get_url_headers returns (it never raises), sends the HEAD request first,
\* sends the streamed GET if and only if the HEAD failed, and returns the headers of
\* the HEAD response if that succeeded, else those of the GET response if that
\* succeeded, else the empty dict
C13_HeadThenGet ==
    /\ av_op = "StaticFileUpdater" => av_in.head.kind # "unsent"
    /\ ProbedHeaders =>
          /\ av_out.kind = "return"
          /\ av_in.get.kind # "unsent" <=> av_in.head.kind = "fail"
          /\ av_in.head.kind = "ok" => av_in.headers = av_in.head.headers
          /\ (av_in.head.kind = "fail" /\ av_in.get.kind = "ok") =>
                av_in.headers = av_in.get.headers
          /\ (av_in.head.kind = "fail" /\ av_in.get.kind = "fail") =>
                av_in.headers = EmptyDict

\* the HEAD failed and the GET brought the headers
C13_Witness ==
    /\ ProbedHeaders
    /\ av_in.head.kind = "fail"
    /\ av_in.get.kind = "ok"
    /\ av_in.headers = "content-length" :> BlockSize

(***************************************************************************)
(* C14                                                                     *)
(***************************************************************************)

\* the response carries a Content-Disposition header that holds filename=
HasFilename(headers) ==
    /\ "content-disposition" \in DOMAIN headers
    /\ \E i \in 1..Len(headers["content-disposition"]) :
          headers["content-disposition"][i] = "filename="

\* C14: get_static_url(original_url) returns the Location header of the response
\* if there is one; else the final URL of the request if it is not original_url;
\* else original_url if Content-Disposition holds filename=; else no URL; a failed
\* request gives no URL, and the caller gets its answer, not an exception
C14_ResolveOrder ==
    av_op = "DynamicUpdater" =>
        LET r == av_in.resolve
            located == "location" \in DOMAIN r.headers
        IN  /\ av_out.kind = "return"
            /\ r.kind \in {"ok", "fail"}
            /\ r.kind = "fail" => av_in.fresh = NoUrl
            /\ (r.kind = "ok" /\ located) => av_in.fresh = r.headers["location"]
            /\ (r.kind = "ok" /\ ~located /\ r.url # original_url) => av_in.fresh = r.url
            /\ (r.kind = "ok" /\ ~located /\ r.url = original_url) =>
                  av_in.fresh = IF HasFilename(r.headers) THEN original_url ELSE NoUrl

\* a response with a Location header that was also redirected: the header wins
C14_Witness ==
    /\ av_op = "DynamicUpdater"
    /\ av_in.resolve.kind = "ok"
    /\ "location" \in DOMAIN av_in.resolve.headers
    /\ av_in.resolve.url # original_url
    /\ av_in.fresh = UrlB

\* neither header nor redirect, Content-Disposition without filename=: no URL
C14_WitnessNone ==
    /\ av_op = "DynamicUpdater"
    /\ av_in.resolve.kind = "ok"
    /\ av_in.resolve.url = original_url
    /\ av_in.resolve.headers = "content-disposition" :> <<"inline">>
    /\ av_in.fresh = NoUrl

(***************************************************************************)
(* C15                                                                     *)
(***************************************************************************)

\* the class the call is narrowed to: the model argument of check_url, or the class
\* that update_url_manager names; None when no class is forced
Forced ==
    IF cu_in.via = "check_url" THEN cu_in.model
    ELSE IF cu_in.label \in {"StaticFileUpdater", "DynamicUpdater", "GithubUpdater"}
    THEN cu_in.label
    ELSE None

\* the classes whose can_handle_link the call asked
Asked == {cu_calls[i].class : i \in 1..Len(cu_calls)}

\* C15: with a class forced (update_url_manager naming one of the three, or the model
\* argument) only that class is asked, for the descriptor and for the url, and the
\* result is None or an instance of it; with none forced all three are candidates,
\* so when nothing is accepted all three were asked about every string there is
C15_ForcedVariant ==
    cu_pc = "returned" =>
        /\ Forced # None =>
              /\ Asked \subseteq {Forced}
              /\ cu_result.kind = "instance" => cu_result.class = Forced
              /\ cu_result.kind = "instance" <=>
                    \/ cu_in.el /\ cu_in.embedded_app_data # <<>>
                          /\ cu_accepts["embedded"][Forced]
                    \/ cu_in.url # <<>> /\ cu_accepts["url"][Forced]
        /\ (Forced = None /\ cu_result.kind = "none"
                /\ (cu_in.url # <<>> \/ (cu_in.el /\ cu_in.embedded_app_data # <<>>))) =>
              Asked = {"StaticFileUpdater", "DynamicUpdater", "GithubUpdater"}

\* GithubUpdater forced by update_url_manager for a descriptor that DynamicUpdater,
\* tried earlier without the override, accepts too
C15_Witness ==
    /\ cu_pc = "returned"
    /\ cu_in.via = "check_url_for_app"
    /\ cu_in.label = "GithubUpdater"
    /\ cu_accepts["embedded"]["DynamicUpdater"]
    /\ cu_result.kind = "instance"
    /\ cu_result.class = "GithubUpdater"
    /\ cu_result.embedded

\* GithubUpdater forced through the model argument, for the raw url
C15_WitnessUrl ==
    /\ cu_pc = "returned"
    /\ cu_in.via = "check_url"
    /\ cu_in.model = "GithubUpdater"
    /\ cu_accepts["url"]["StaticFileUpdater"]
    /\ cu_result.kind = "instance"
    /\ cu_result.class = "GithubUpdater"
    /\ ~cu_result.embedded

(***************************************************************************)
(* C16                                                                     *)
(***************************************************************************)

\* what StaticFileUpdater.cancel_download may change
TransferState == <<currend_download, resp_closed>>

\* what the call of a method of the GithubUpdater may change
ManagerState == <<staticfile_manager, gd_pc, gd_op, gd_seen, gd_out, gd_started>>

\* a call of StaticFileUpdater.cancel_download with no response held changes
\* nothing; with one held it closes it and clears the field; and it leaves no
\* response held, so that a second call in a row is of the first kind
StaticCancelIsIdempotent ==
    CancelDownload =>
        /\ currend_download = NoDownload => UNCHANGED dlVars
        /\ currend_download # NoDownload =>
              /\ resp_closed'
              /\ UNCHANGED <<dl_pc, dl_calls, stream_left, chunk, file_size, status,
                             callbacks, dl_result>>
        /\ currend_download' = NoDownload

\* the same of GithubUpdater.cancel_download and self.staticfile_manager, whose
\* cancel_download it calls
GithubCancelIsIdempotent ==
    GithubCancelDownload =>
        /\ ~staticfile_manager => UNCHANGED <<ManagerState, dlVars>>
        /\ staticfile_manager =>
              /\ currend_download' = NoDownload
              /\ currend_download # NoDownload => resp_closed'
              /\ UNCHANGED <<gd_pc, gd_op, gd_seen, gd_out, gd_started>>
        /\ ~staticfile_manager'

\* C16: cancel_download of StaticFileUpdater and of GithubUpdater changes no state
\* when no transfer is held, closes the transfer and clears the handle when one is,
\* and leaves a state in which calling it again changes nothing
C16_CancelIdempotent == [][StaticCancelIsIdempotent /\ GithubCancelIsIdempotent]_vars

\* a transfer under way was cancelled: its response is closed, both handles are clear
C16_Witness ==
    /\ gd_pc = "downloading"
    /\ gd_cancels = {"downloading"}
    /\ cancelled
    /\ resp_closed
    /\ currend_download = NoDownload
    /\ ~staticfile_manager

(***************************************************************************)
(* C17                                                                     *)
(***************************************************************************)

\* the blank-delimited words of the dump
DumpWords == SelectSeq(Split(readelf_out, " "), LAMBDA w : w # <<>>)

\* the tail of a word from its first gh-releases-zsync| on, if that tail ends in
\* .zsync; <<>> otherwise
GhPart(w) ==
    LET at == {i \in 1..(Len(w) - 1) : w[i] = "gh-releases-zsync" /\ w[i + 1] = "|"}
    IN  IF at = {} \/ ~EndsWithZsync(w) THEN <<>>
        ELSE SubSeq(w, CHOOSE i \in at : \A k \in at : i <= k, Len(w))

\* the tail of a word after its zsync| if http follows that; <<>> otherwise
LinkPart(w) ==
    LET at == {i \in 1..(Len(w) - 2) :
                  w[i] = "zsync" /\ w[i + 1] = "|" /\ w[i + 2] \in {"https://", "http://"}}
    IN  IF at = {} THEN <<>>
        ELSE SubSeq(w, (CHOOSE i \in at : \A k \in at : i <= k) + 2, Len(w))

\* what part gives for the first word of the dump for which it gives something;
\* <<>> if there is none
FirstPart(part(_)) ==
    LET at == {i \in 1..Len(DumpWords) : part(DumpWords[i]) # <<>>}
    IN  IF at = {} THEN <<>> ELSE part(DumpWords[CHOOSE i \in at : \A k \in at : i <= k])

\* C17: check_app returns the gh-releases-zsync|... descriptor of the dump that ends
\* in .zsync, without what precedes it; if there is none, the word of the dump that
\* begins with zsync|http, wherever it stands, up to the next blank and without its
\* zsync|; and None if there is neither
C17_Extraction ==
    ca_pc = "returned" =>
        ca_result = IF FirstPart(GhPart) # <<>> THEN FirstPart(GhPart)
                    ELSE FirstPart(LinkPart)

(***************************************************************************)
(* C18                                                                     *)
(***************************************************************************)

\* the string of a phase of the call, <<>> if the phase has none
PhaseString(phase) ==
    IF phase = "embedded" THEN (IF cu_in.el THEN cu_in.embedded_app_data ELSE <<>>)
    ELSE cu_in.url

\* the phase that gave the instance returned
ResultPhase == IF cu_result.embedded THEN "embedded" ELSE "url"

\* the text holds 'appimage', in any case, or 'github.com'
DynamicBait(s) ==
    \E i \in 1..Len(s) : s[i] \in {"AppImage", "appimage", "github.com"}

\* C18: with no class forced the instance returned is of the first of
\* StaticFileUpdater, DynamicUpdater, GithubUpdater that accepts the string, so a
\* GithubUpdater only comes from a string the other two reject; DynamicUpdater
\* accepts every string that holds 'appimage' or 'github.com', whatever the network
\* answers; so for such a string no GithubUpdater is returned
C18_DynamicShadowsGithub ==
    (cu_pc = "returned" /\ cu_in.model = None) =>
        /\ cu_result.kind = "instance" =>
              LET yes == cu_accepts[ResultPhase]
              IN  cu_result.class =
                      IF yes["StaticFileUpdater"] THEN "StaticFileUpdater"
                      ELSE IF yes["DynamicUpdater"] THEN "DynamicUpdater"
                      ELSE "GithubUpdater"
        /\ (cu_result.kind = "instance" /\ cu_result.class = "GithubUpdater") =>
              /\ ~cu_accepts[ResultPhase]["StaticFileUpdater"]
              /\ ~cu_accepts[ResultPhase]["DynamicUpdater"]
              /\ cu_accepts[ResultPhase]["GithubUpdater"]
        /\ \A phase \in {"embedded", "url"} :
              DynamicBait(PhaseString(phase)) => cu_accepts[phase]["DynamicUpdater"]
        /\ (cu_result.kind = "instance" /\ DynamicBait(cu_result.url)) =>
              cu_result.class # "GithubUpdater"

\* an embedded gh-releases-zsync descriptor of an AppImage file, which GithubUpdater
\* accepts and StaticFileUpdater does not, ends as a DynamicUpdater
C18_Witness ==
    /\ cu_pc = "returned"
    /\ cu_in.model = None
    /\ cu_in.el
    /\ cu_in.embedded_app_data # <<>>
    /\ cu_in.embedded_app_data[1] = "gh-releases-zsync"
    /\ DynamicBait(cu_in.embedded_app_data)
    /\ cu_accepts["embedded"]["GithubUpdater"]
    /\ ~cu_accepts["embedded"]["StaticFileUpdater"]
    /\ cu_result.kind = "instance"
    /\ cu_result.class = "DynamicUpdater"
    /\ cu_result.embedded

\* a release URL on github.com whose file is no AppImage does too
C18_WitnessUrl ==
    /\ cu_pc = "returned"
    /\ cu_in.model = None
    /\ \A i \in 1..Len(cu_in.url) : cu_in.url[i] # "AppImage"
    /\ cu_accepts["url"]["GithubUpdater"]
    /\ cu_result.kind = "instance"
    /\ cu_result.class = "DynamicUpdater"
    /\ ~cu_result.embedded

\* a GithubUpdater is returned, unforced, for a descriptor the other two reject
C18_WitnessGithub ==
    /\ cu_pc = "returned"
    /\ cu_in.model = None
    /\ cu_result.kind = "instance"
    /\ cu_result.class = "GithubUpdater"

(***************************************************************************)
(* C19                                                                     *)
(***************************************************************************)

\* the instance was built from a release URL; its tag is the sixth path segment
FromReleaseUrl == gd_src[1] = "https://"
SourceTag == <<gd_src[12]>>

\* the last method called asked the releases API and got a release with another tag
SawOtherTag == gd_seen.kind = "json" /\ gd_seen.json["tag_name"] # SourceTag

\* C19: a GithubUpdater built from a release URL with the literal tag T asks for the
\* release 'latest'; when that release has another tag fetch_target_asset returns
\* None, is_update_available returns False, and download returns None without
\* asking for a file; an asset is found, and a file asked for, only under the tag T
C19_LiteralTagNeedsLatest ==
    (FromReleaseUrl /\ gd_op # "none" /\ gd_seen.kind # "unsent") =>
        /\ gd_seen.url = <<"https://", "api.github.com", "/", "repos", "/", "o", "/", "r",
                           "/", "releases", "/", "latest">>
        /\ SawOtherTag =>
              /\ gd_op = "fetch_target_asset" => gd_out.kind = "none"
              /\ gd_op = "is_update_available" => gd_out = [kind |-> "return", value |-> FALSE]
              /\ gd_op = "download" =>
                    /\ gd_pc = "idle"
                    /\ gd_out = [kind |-> "none"]
                    /\ ~gd_started
        /\ (gd_op = "fetch_target_asset" /\ gd_out.kind = "asset") =>
              gd_seen.json["tag_name"] = SourceTag
        /\ (gd_op = "download" /\ (gd_started \/ gd_pc # "idle")) =>
              gd_seen.json["tag_name"] = SourceTag

\* a download that fetched the file under the tag v1 is followed, v2 being the latest
\* release and holding the file, by a download that returns None
C19_Witness ==
    /\ FromReleaseUrl
    /\ gd_op = "download"
    /\ dl_calls = 1
    /\ dl_result.kind = "returned"
    /\ SawOtherTag
    /\ \E i \in 1..Len(gd_seen.json["assets"]) : gd_seen.json["assets"][i]["name"] = NameX86
    /\ gd_pc = "idle"
    /\ gd_out = [kind |-> "none"]

\* is_update_available answers False while the latest release holds a file of a
\* size that is not the installed one's
C19_WitnessCheck ==
    /\ FromReleaseUrl
    /\ gd_op = "is_update_available"
    /\ SawOtherTag
    /\ \E i \in 1..Len(gd_seen.json["assets"]) : gd_seen.json["assets"][i]["name"] = NameX86
    /\ gd_out = [kind |-> "return", value |-> FALSE]

(***************************************************************************)
(* C20                                                                     *)
(***************************************************************************)

\* cancel_download is called while download is in fetch_target_asset and the
\* instance has no StaticFileUpdater
EarlyCancel == gd_pc = "resolving" /\ ~staticfile_manager /\ GithubCancelDownload

\* the only cancel_download of the download call under way, or just ended, came
\* while download was in fetch_target_asset
OnlyCancelledEarly == gd_op = "download" /\ gd_cancels = {"resolving"}

\* the download goes on as one that nobody cancelled: it returns None only when
\* fetch_target_asset found no asset, makes the StaticFileUpdater, receives from an
\* open response, and returns the file when the stream delivered it
GoesOnUncancelled ==
    /\ (gd_pc = "idle" /\ gd_out.kind = "none") => GdFetch(gd_seen).kind = "none"
    /\ gd_pc \in {"created", "downloading"} => staticfile_manager
    /\ gd_pc = "downloading" =>
          /\ currend_download # NoDownload
          /\ ~resp_closed
          /\ ~cancelled
    /\ (gd_pc = "idle" /\ gd_started /\ loop_exit = "eof" /\ file_size >= total_size) =>
          /\ gd_out.kind = "returned"
          /\ gd_out.fname = Fname(dl_calls)

\* C20: a cancel_download that arrives while download is still in
\* fetch_target_asset, no StaticFileUpdater existing, changes no state, and the
\* download then makes the StaticFileUpdater, starts the transfer and runs as if
\* nothing had been cancelled
C20_EarlyCancelIsLost ==
    /\ [][EarlyCancel => UNCHANGED <<ManagerState, dlVars, gd_src, gd_release>>]_vars
    /\ [](OnlyCancelledEarly => GoesOnUncancelled)

\* cancelled while resolving, and the file was downloaded in full all the same
C20_Witness ==
    /\ OnlyCancelledEarly
    /\ gd_pc = "idle"
    /\ ~cancelled
    /\ file_size = BlockSize
    /\ gd_out.kind = "returned"

====
